---- MODULE Spec2Model ----
(***************************************************************************)
(* Model of generator_control.py: the control loop of GeneratorController. *)
(* One action per method called from run(); a tick is the sequence         *)
(* connect, inputs, mode, soc, limits, [ac, rp,] relays, outputs, ism,     *)
(* gate, end.  Currents are integers in hundredths of an amp, the state of *)
(* charge is an integer percentage, the clock is an integer number of      *)
(* seconds.  A Python value that may be None is a sequence: <<>> is None,  *)
(* <<v>> is the value v.                                                    *)
(***************************************************************************)
EXTENDS Integers, Sequences, FiniteSets, TLC

\* ---------------------------------------------------------------- constants

INV_SWITCH_OFF == 4
INV_SWITCH_ON == 3
INV_SWITCH_INVERT_ONLY == 2
INV_SWITCH_CHARGE_ONLY == 1

\* Amps
REVERSE_POWER_CURRENT_THRESHOLD == -5

DEFAULT_MODE == "Off"

TIMESTEP == 1
REVERSE_POWER_COUNTER_THRESHOLD == 10 \div TIMESTEP

\* the literals of the code
OFF_BUTTON_HOLD_THRESHOLD == 10
CONTACTOR_SETTLE_DELAY == 10
MIN_COMMAND_INTERVAL == 5
LOW_SOC_THRESHOLD == 50
\* the clock reading when run() starts: __main__ sleeps 10 s before it
STARTUP_WAIT == 10

\* ------------------------------------------------------------------- bounds

\* the clock stops the model at MaxTime (the inverter gate), MaxModeTime (the
\* mode state machine) or MaxAlarmTime (the reverse-power detector)
MaxTime == 24
MaxModeTime == 22
MaxAlarmTime == 34
\* the Off button is held for at most this many consecutive ticks, and for
\* at most MaxShortOffHold where the hold is not what is looked at
MaxOffHold == 11
MaxShortOffHold == 1
\* reverse power is detected on at most this many ticks more than it is not
MaxReversePowerCounter == 12
\* the clock stops the model with failing links at MaxLinkTime, the model of
\* the relay outputs at MaxRelayTime
MaxLinkTime == 14
MaxRelayTime == 14
\* the clock stops the model of the waiting gate at MaxLiveTime
MaxLiveTime == 24

\* ------------------------------------------------------------------ values

None == <<>>
Some(v) == <<v>>
Max(a, b) == IF a >= b THEN a ELSE b
Min(a, b) == IF a <= b THEN a ELSE b
B2I(b) == IF b THEN 1 ELSE 0

\* a current in amps, in the model's hundredths
Amps(a) == a * 100

\* round(x, 1) on hundredths: the nearest tenth, a tie going to the even
\* tenth (what Python does for an exactly represented tie)
Round1(h) ==
    LET q == h \div 10
        r == h % 10
    IN  IF r < 5 THEN q * 10
        ELSE IF r > 5 THEN (q + 1) * 10
        ELSE IF q % 2 = 0 THEN q * 10 ELSE (q + 1) * 10

Relays == 2..9
RelayItem(r) ==
    <<"relay_2", "relay_3", "relay_4", "relay_5",
      "relay_6", "relay_7", "relay_8", "relay_9">>[r - 1]
RelayItems == {RelayItem(r) : r \in Relays}
Items ==
    {"battery_soc", "battery_charge_limit", "battery_discharge_limit",
     "ac_output_current", "inverter_switch_mode"} \cup RelayItems

Button(off, on, charge) ==
    [Off_Button |-> off, On_Button |-> on, Charge_Button |-> charge]
AllButtons == {Button(a, b, c) : a \in {0, 1}, b \in {0, 1}, c \in {0, 1}}

\* ------------------------------------------------------------------- state

VARIABLES
    Mode, Toggle_State, inverter_switch_mode_update_time,
    Off_Button_Pressed_Counter, BMS_Disable, Battery_SOC,
    Battery_Charge_Limit, Battery_Discharge_Limit, AC_Output_Current,
    Inverter_Switch_Mode, Reverse_Power_Counter, Reverse_Power_Alarm,
    Inverter_Connected, BMS_Connected, relay_states, inverter_delay,
    input_values, dbus_items,
    pc, now, relay_bus,
    inv_cmd, inv_delivered, cmd_gap, last_cmd_time, relay_writes,
    rp_run, off_alarm_ticks,
    failed_reads, out_targets, out_fault, gate_wait

ctl_vars ==
    <<Mode, Toggle_State, inverter_switch_mode_update_time,
      Off_Button_Pressed_Counter, BMS_Disable, Battery_SOC,
      Battery_Charge_Limit, Battery_Discharge_Limit, AC_Output_Current,
      Inverter_Switch_Mode, Reverse_Power_Counter, Reverse_Power_Alarm,
      Inverter_Connected, BMS_Connected, relay_states, inverter_delay,
      input_values, dbus_items>>
env_vars == <<pc, now, relay_bus>>
\* what the model records of the run, but for failed_reads: the telemetry
\* items whose read has returned None on this tick
run_obs ==
    <<inv_cmd, inv_delivered, cmd_gap, last_cmd_time, relay_writes,
      rp_run, off_alarm_ticks, out_targets, out_fault, gate_wait>>
obs_vars == <<run_obs, failed_reads>>
vars == <<ctl_vars, env_vars, obs_vars>>

\* ----------------------------------------------------- derived predicates

Off_Button_Pressed == input_values.Off_Button = 1
On_Button_Pressed == input_values.On_Button = 1
Charge_Button_Pressed == input_values.Charge_Button = 1

ValidModes == {"Off", "On", "ChargeOnly"}

\* the property returns True or falls off its end (None, which is falsy)
Fault_Detected ==
    \/ Mode \notin ValidModes
    \/ BMS_Connected = FALSE
    \/ (Mode # "Off") /\ (Inverter_Connected = FALSE)
    \/ (Mode # "Off") /\ (Reverse_Power_Alarm = TRUE)

Off_LED == Mode = "Off"
On_LED == Mode = "On"
Charge_LED == Mode = "ChargeOnly"

BMS_Wake ==
    ~((Mode = "Off") /\ ((Battery_SOC < LOW_SOC_THRESHOLD) \/ BMS_Disable))

DSE_Remote_Start == Mode = "On"
DSE_Mode_Request == (Mode = "On") \/ (Mode = "ChargeOnly")

\* variant: the third button is not looked at
RcdResetAnyChord ==
    Off_Button_Pressed /\ (On_Button_Pressed \/ Charge_Button_Pressed)

RCD_Reset_Switch ==
    \/ Off_Button_Pressed /\ On_Button_Pressed /\ ~Charge_Button_Pressed
    \/ Off_Button_Pressed /\ Charge_Button_Pressed /\ ~On_Button_Pressed

Service_Restart_Requested ==
    Off_Button_Pressed /\ On_Button_Pressed /\ Charge_Button_Pressed

\* modes.get(Mode): None for a mode the table does not hold
SwitchModeOf(mode) ==
    CASE mode = "Off" -> Some(INV_SWITCH_OFF)
      [] mode = "On" -> Some(INV_SWITCH_ON)
      [] mode = "InvertOnly" -> Some(INV_SWITCH_INVERT_ONLY)
      [] mode = "ChargeOnly" -> Some(INV_SWITCH_CHARGE_ONLY)
      [] OTHER -> None

Inverter_Switch_Mode_Target ==
    IF Reverse_Power_Alarm THEN Some(INV_SWITCH_OFF) ELSE SwitchModeOf(Mode)

Reverse_Power_Detected ==
    /\ AC_Output_Current # None
    /\ AC_Output_Current[1] < Amps(REVERSE_POWER_CURRENT_THRESHOLD)

\* variant: the discharge limit is not looked at
ClosedByChargeLimitOnly == Battery_Charge_Limit # 0

\* the value of the property; reading it also sets inverter_delay when the
\* value is falsy (see SetInverterSwitchMode)
Battery_Contactors_Closed ==
    (Battery_Charge_Limit # 0) /\ (Battery_Discharge_Limit # 0)

\* line 342: time() - self._inverter_switch_mode_update_time > 5
MinIntervalElapsed ==
    (now - inverter_switch_mode_update_time) > MIN_COMMAND_INTERVAL

\* ------------------------------------------------------------- bus access

\* get_dbus_value: the outcomes of one call.  A live handle returns one of
\* vals, or raises DBusException when the environment lets that item raise
\* (the call then returns None and the handle is popped); without a live
\* handle the call returns None.
Reads(E, item, vals) ==
    IF dbus_items[item] = "live"
    THEN {[val |-> v, exc |-> FALSE] : v \in vals} \cup
         (IF item \in E.raises THEN {[val |-> None, exc |-> TRUE]} ELSE {})
    ELSE {[val |-> None, exc |-> FALSE]}

\* the item of a call that returned None
Failed(item, o) == IF o.val = None THEN {item} ELSE {}

\* clear_dbus_item after the outcomes of some calls: every item that raised
Popped(items, raised) ==
    [i \in Items |-> IF i \in raised THEN "absent" ELSE items[i]]

\* ------------------------------------------------------------------- Init

NoButtons == Button(0, 0, 0)

\* __init__, whose last call is check_and_create_connections
Init(E) ==
    /\ Mode = ""
    /\ Toggle_State = FALSE
    /\ inverter_switch_mode_update_time = 0
    /\ Off_Button_Pressed_Counter = 0
    /\ BMS_Disable = FALSE
    /\ Battery_SOC = 0
    /\ Battery_Charge_Limit = 0
    /\ Battery_Discharge_Limit = 0
    /\ AC_Output_Current = None
    /\ Inverter_Switch_Mode = 0
    /\ Reverse_Power_Counter = 0
    /\ Reverse_Power_Alarm = FALSE
    /\ Inverter_Connected = FALSE
    /\ BMS_Connected = FALSE
    /\ relay_states = [r \in Relays |-> None]
    /\ inverter_delay = 0
    /\ input_values = NoButtons
    /\ dbus_items \in
         {f \in [Items -> {"null", "live"}] :
            \A i \in Items : i \notin E.down => f[i] = "live"}
    /\ pc = "connect"
    /\ now = STARTUP_WAIT
    /\ relay_bus \in E.relay_init
    /\ inv_cmd = None
    /\ inv_delivered = FALSE
    /\ cmd_gap = None
    /\ last_cmd_time = None
    /\ relay_writes = {}
    /\ rp_run = 0
    /\ off_alarm_ticks = 0
    /\ failed_reads = {}
    /\ out_targets = [r \in Relays |-> None]
    /\ out_fault = FALSE
    /\ gate_wait = 0

\* ---------------------------------------------------------------- actions

\* check_and_create_connections: every item without a live handle is created
\* again; the creation fails (handle None) only for an item of E.down
CheckAndCreateConnections(E) ==
    /\ pc = "connect"
    /\ dbus_items' \in
         {f \in [Items -> {"null", "live"}] :
            \A i \in Items :
               /\ dbus_items[i] = "live" => f[i] = "live"
               /\ i \notin E.down => f[i] = "live"}
    /\ failed_reads' = {}
    /\ pc' = "inputs"
    /\ UNCHANGED <<Mode, Toggle_State, inverter_switch_mode_update_time,
                   Off_Button_Pressed_Counter, BMS_Disable, Battery_SOC,
                   Battery_Charge_Limit, Battery_Discharge_Limit,
                   AC_Output_Current, Inverter_Switch_Mode,
                   Reverse_Power_Counter, Reverse_Power_Alarm,
                   Inverter_Connected, BMS_Connected, relay_states,
                   inverter_delay, input_values, now, relay_bus, run_obs>>

\* update_inputs: the three buttons (the feedback inputs are read and never
\* used)
UpdateInputs(E) ==
    /\ pc = "inputs"
    /\ input_values' \in E.buttons
    /\ pc' = "mode"
    /\ UNCHANGED <<Mode, Toggle_State, inverter_switch_mode_update_time,
                   Off_Button_Pressed_Counter, BMS_Disable, Battery_SOC,
                   Battery_Charge_Limit, Battery_Discharge_Limit,
                   AC_Output_Current, Inverter_Switch_Mode,
                   Reverse_Power_Counter, Reverse_Power_Alarm,
                   Inverter_Connected, BMS_Connected, relay_states,
                   inverter_delay, dbus_items, now, relay_bus, obs_vars>>

OffAlone(in) == in.Off_Button = 1 /\ in.On_Button = 0 /\ in.Charge_Button = 0
OnAlone(in) == in.On_Button = 1 /\ in.Off_Button = 0 /\ in.Charge_Button = 0
ChargeAlone(in) ==
    in.Charge_Button = 1 /\ in.On_Button = 0 /\ in.Off_Button = 0

\* variant: the Off button wins over the other two
NextModeOffWins(mode, in) ==
    IF in.Off_Button = 1 THEN "Off"
    ELSE IF OnAlone(in) THEN "On"
    ELSE IF ChargeAlone(in) THEN "ChargeOnly"
    ELSE IF mode = "" THEN DEFAULT_MODE ELSE mode

\* variant: no default on the first tick
NextModeNoDefault(mode, in) ==
    IF OffAlone(in) THEN "Off"
    ELSE IF OnAlone(in) THEN "On"
    ELSE IF ChargeAlone(in) THEN "ChargeOnly"
    ELSE mode

\* lines 218-219 and 229-238
NextMode(mode, in) ==
    IF OffAlone(in) THEN "Off"
    ELSE IF OnAlone(in) THEN "On"
    ELSE IF ChargeAlone(in) THEN "ChargeOnly"
    ELSE IF mode = "" THEN DEFAULT_MODE ELSE mode

\* lines 221-224
NextOffCounter(c, in) == IF in.Off_Button = 1 THEN c + 1 ELSE 0

\* variant: the hold threshold is taken one tick late
NextBmsDisableLate(dis, c, in) ==
    IF OnAlone(in) \/ ChargeAlone(in) THEN FALSE
    ELSE IF c >= OFF_BUTTON_HOLD_THRESHOLD + 1 THEN TRUE ELSE dis

\* lines 226-227, 233 and 236; c is the counter after lines 221-224
NextBmsDisable(dis, c, in) ==
    IF OnAlone(in) \/ ChargeAlone(in) THEN FALSE
    ELSE IF c >= OFF_BUTTON_HOLD_THRESHOLD THEN TRUE ELSE dis

UpdateMode(E) ==
    /\ pc = "mode"
    /\ input_values.Off_Button = 1 => Off_Button_Pressed_Counter < E.maxOffHold
    /\ Mode' = NextMode(Mode, input_values)
    /\ Off_Button_Pressed_Counter' =
         NextOffCounter(Off_Button_Pressed_Counter, input_values)
    /\ BMS_Disable' =
         NextBmsDisable(BMS_Disable, Off_Button_Pressed_Counter', input_values)
    /\ pc' = "soc"
    /\ UNCHANGED <<Toggle_State, inverter_switch_mode_update_time,
                   Battery_SOC, Battery_Charge_Limit, Battery_Discharge_Limit,
                   AC_Output_Current, Inverter_Switch_Mode,
                   Reverse_Power_Counter, Reverse_Power_Alarm,
                   Inverter_Connected, BMS_Connected, relay_states,
                   inverter_delay, input_values, dbus_items, now, relay_bus,
                   obs_vars>>

UpdateBatterySoc(E) ==
    /\ pc = "soc"
    /\ \E o \in Reads(E, "battery_soc", E.soc) :
         /\ IF o.val # None
            THEN BMS_Connected' = TRUE /\ Battery_SOC' = o.val[1]
            ELSE BMS_Connected' = FALSE /\ Battery_SOC' = 0
         /\ dbus_items' =
              Popped(dbus_items, IF o.exc THEN {"battery_soc"} ELSE {})
         /\ failed_reads' =
              failed_reads \cup Failed("battery_soc", o)
    /\ pc' = "limits"
    /\ UNCHANGED <<Mode, Toggle_State, inverter_switch_mode_update_time,
                   Off_Button_Pressed_Counter, BMS_Disable,
                   Battery_Charge_Limit, Battery_Discharge_Limit,
                   AC_Output_Current, Inverter_Switch_Mode,
                   Reverse_Power_Counter, Reverse_Power_Alarm,
                   Inverter_Connected, relay_states, inverter_delay,
                   input_values, now, relay_bus, run_obs>>

\* line 280 tests the stored limits, not the two values just read; the
\* stored limits are numbers (0 at first, then results of round), never None
StoredLimitsNotNone == TRUE

AfterLimits == IF Mode = "On" \/ Mode = "ChargeOnly" THEN "ac" ELSE "relays"

\* update_battery_limits; round(None, 1) raises TypeError, which nothing
\* catches before __main__ re-raises it: the process ends
UpdateBatteryLimits(E) ==
    /\ pc = "limits"
    /\ \E c \in Reads(E, "battery_charge_limit", E.charge),
          d \in Reads(E, "battery_discharge_limit", E.discharge) :
         /\ dbus_items' =
              Popped(dbus_items,
                     (IF c.exc THEN {"battery_charge_limit"} ELSE {}) \cup
                     (IF d.exc THEN {"battery_discharge_limit"} ELSE {}))
         /\ failed_reads' =
              failed_reads \cup Failed("battery_charge_limit", c)
                           \cup Failed("battery_discharge_limit", d)
         /\ IF StoredLimitsNotNone
            THEN /\ BMS_Connected' = TRUE
                 /\ IF c.val = None
                    THEN /\ pc' = "crashed"
                         /\ UNCHANGED <<Battery_Charge_Limit,
                                        Battery_Discharge_Limit>>
                    ELSE /\ Battery_Charge_Limit' = Round1(c.val[1])
                         /\ IF d.val = None
                            THEN /\ pc' = "crashed"
                                 /\ UNCHANGED Battery_Discharge_Limit
                            ELSE /\ Battery_Discharge_Limit' = Round1(d.val[1])
                                 /\ pc' = AfterLimits
            ELSE /\ BMS_Connected' = FALSE
                 /\ pc' = AfterLimits
                 /\ UNCHANGED <<Battery_Charge_Limit, Battery_Discharge_Limit>>
    /\ UNCHANGED <<Mode, Toggle_State, inverter_switch_mode_update_time,
                   Off_Button_Pressed_Counter, BMS_Disable, Battery_SOC,
                   AC_Output_Current, Inverter_Switch_Mode,
                   Reverse_Power_Counter, Reverse_Power_Alarm,
                   Inverter_Connected, relay_states, inverter_delay,
                   input_values, now, relay_bus, run_obs>>

\* update_ac_output_current; line 297 pops the handle a second time when
\* get_dbus_value has popped it already: KeyError, the process ends
UpdateAcOutputCurrent(E) ==
    /\ pc = "ac"
    /\ \E o \in Reads(E, "ac_output_current", E.ac) :
         /\ failed_reads' = failed_reads \cup Failed("ac_output_current", o)
         /\ IF o.val # None
            THEN /\ Inverter_Connected' = TRUE
                 /\ AC_Output_Current' = Some(Round1(o.val[1]))
                 /\ pc' = "rp"
                 /\ UNCHANGED dbus_items
            ELSE /\ Inverter_Connected' = FALSE
                 /\ AC_Output_Current' = None
                 /\ dbus_items' = Popped(dbus_items, {"ac_output_current"})
                 /\ pc' = IF \/ o.exc
                             \/ dbus_items["ac_output_current"] = "absent"
                          THEN "crashed" ELSE "rp"
    /\ UNCHANGED <<Mode, Toggle_State, inverter_switch_mode_update_time,
                   Off_Button_Pressed_Counter, BMS_Disable, Battery_SOC,
                   Battery_Charge_Limit, Battery_Discharge_Limit,
                   Inverter_Switch_Mode, Reverse_Power_Counter,
                   Reverse_Power_Alarm, BMS_Connected, relay_states,
                   inverter_delay, input_values, now, relay_bus, run_obs>>

\* lines 362-367; line 364 computes a max and drops it
NextReversePowerCounter(c, detected) ==
    IF detected THEN c + 1 ELSE Max(0, c - 1)

\* variant: the alarm clears at counter 0 in any mode
NextReversePowerAlarmClearsAtZero(alarm, mode, c) ==
    IF c >= REVERSE_POWER_COUNTER_THRESHOLD THEN TRUE
    ELSE IF c = 0 THEN FALSE
    ELSE alarm

\* variant: the alarm is set one count early
NextReversePowerAlarmEarly(alarm, mode, c) ==
    IF c >= REVERSE_POWER_COUNTER_THRESHOLD - 1 THEN TRUE
    ELSE IF (mode = "Off") /\ (c = 0) THEN FALSE
    ELSE alarm

\* lines 369-373; c is the counter after lines 362-367
NextReversePowerAlarm(alarm, mode, c) ==
    IF c >= REVERSE_POWER_COUNTER_THRESHOLD THEN TRUE
    ELSE IF (mode = "Off") /\ (c = 0) THEN FALSE
    ELSE alarm

\* the stored AC output current is a value below -5 A
AcBelowMinusFive ==
    AC_Output_Current # None /\ AC_Output_Current[1] < -500

\* check_reverse_power.  rp_run counts the checks in a row that found the
\* AC output current below -5 A, when the first of them found the counter
\* at 0.
CheckReversePower ==
    /\ pc = "rp"
    /\ Reverse_Power_Detected =>
         Reverse_Power_Counter < MaxReversePowerCounter
    /\ Reverse_Power_Counter' =
         NextReversePowerCounter(Reverse_Power_Counter, Reverse_Power_Detected)
    /\ Reverse_Power_Alarm' =
         NextReversePowerAlarm(Reverse_Power_Alarm, Mode, Reverse_Power_Counter')
    /\ rp_run' =
         IF ~AcBelowMinusFive THEN 0
         ELSE IF Reverse_Power_Counter = 0 THEN 1
         ELSE IF rp_run > 0 THEN rp_run + 1 ELSE 0
    /\ pc' = "relays"
    /\ UNCHANGED <<Mode, Toggle_State, inverter_switch_mode_update_time,
                   Off_Button_Pressed_Counter, BMS_Disable, Battery_SOC,
                   Battery_Charge_Limit, Battery_Discharge_Limit,
                   AC_Output_Current, Inverter_Switch_Mode,
                   Inverter_Connected, BMS_Connected, relay_states,
                   inverter_delay, input_values, dbus_items, now, relay_bus,
                   inv_cmd, inv_delivered, cmd_gap, last_cmd_time,
                   relay_writes, off_alarm_ticks, failed_reads, out_targets,
                   out_fault, gate_wait>>

Live(r) == dbus_items[RelayItem(r)] = "live"

\* update_relay_states: each relay's state as the bus holds it, None for a
\* relay whose read fails
UpdateRelayStates(E) ==
    /\ pc = "relays"
    /\ \E X \in SUBSET {r \in Relays : Live(r) /\ RelayItem(r) \in E.raises} :
         /\ relay_states' =
              [r \in Relays |->
                 IF Live(r) /\ r \notin X THEN Some(relay_bus[r]) ELSE None]
         /\ dbus_items' = Popped(dbus_items, {RelayItem(r) : r \in X})
    /\ pc' = "outputs"
    /\ UNCHANGED <<Mode, Toggle_State, inverter_switch_mode_update_time,
                   Off_Button_Pressed_Counter, BMS_Disable, Battery_SOC,
                   Battery_Charge_Limit, Battery_Discharge_Limit,
                   AC_Output_Current, Inverter_Switch_Mode,
                   Reverse_Power_Counter, Reverse_Power_Alarm,
                   Inverter_Connected, BMS_Connected, inverter_delay,
                   input_values, now, relay_bus, obs_vars>>

\* variant: relay 2 shows Off_LED, fault or no fault
RelayTargetNoBlink(r) ==
    CASE r = 2 -> B2I(Off_LED)
      [] r = 3 -> B2I(On_LED)
      [] r = 4 -> B2I(Charge_LED)
      [] r = 5 -> B2I(BMS_Wake)
      [] r = 6 -> B2I(DSE_Remote_Start)
      [] r = 7 -> B2I(DSE_Mode_Request)
      [] r = 8 -> B2I(RCD_Reset_Switch)
      [] r = 9 -> B2I(Reverse_Power_Alarm)

\* the value set_outputs hands to set_relay for each relay, after the
\* coercion of a boolean to 0/1 in set_relay (lines 354-355)
RelayTarget(r) ==
    CASE r = 2 -> IF Fault_Detected THEN B2I(Toggle_State) ELSE B2I(Off_LED)
      [] r = 3 -> B2I(On_LED)
      [] r = 4 -> B2I(Charge_LED)
      [] r = 5 -> B2I(BMS_Wake)
      [] r = 6 -> B2I(DSE_Remote_Start)
      [] r = 7 -> B2I(DSE_Mode_Request)
      [] r = 8 -> B2I(RCD_Reset_Switch)
      [] r = 9 -> B2I(Reverse_Power_Alarm)

\* variant: every relay is written on every tick
RelayAlwaysWritten(r) == TRUE

\* variant: a relay is written only to switch it on
RelayWrittenWhenSet(r) ==
    RelayTarget(r) = 1 /\ Some(RelayTarget(r)) # relay_states[r]

\* line 356: the relays set_relay calls set_dbus_value for
RelayNeedsWrite(r) == Some(RelayTarget(r)) # relay_states[r]

\* set_outputs: the eight set_relay calls.  A write reaches the bus when the
\* relay's handle is live and the call does not raise.  relay_writes is the
\* set of relays set_dbus_value is called for, out_targets the value handed
\* to set_relay for each relay, out_fault the value of Fault_Detected.
SetOutputs(E) ==
    /\ pc = "outputs"
    /\ Toggle_State' = IF Fault_Detected THEN ~Toggle_State ELSE Toggle_State
    /\ relay_writes' = {r \in Relays : RelayNeedsWrite(r)}
    /\ out_targets' = [r \in Relays |-> Some(RelayTarget(r))]
    /\ out_fault' = Fault_Detected
    /\ \E X \in SUBSET {r \in Relays : /\ RelayNeedsWrite(r)
                                       /\ Live(r)
                                       /\ RelayItem(r) \in E.raises} :
         /\ relay_bus' =
              [r \in Relays |->
                 IF RelayNeedsWrite(r) /\ Live(r) /\ r \notin X
                 THEN RelayTarget(r) ELSE relay_bus[r]]
         /\ dbus_items' = Popped(dbus_items, {RelayItem(r) : r \in X})
    /\ pc' = "ism"
    /\ UNCHANGED <<Mode, inverter_switch_mode_update_time,
                   Off_Button_Pressed_Counter, BMS_Disable, Battery_SOC,
                   Battery_Charge_Limit, Battery_Discharge_Limit,
                   AC_Output_Current, Inverter_Switch_Mode,
                   Reverse_Power_Counter, Reverse_Power_Alarm,
                   Inverter_Connected, BMS_Connected, relay_states,
                   inverter_delay, input_values, now,
                   inv_cmd, inv_delivered, cmd_gap, last_cmd_time,
                   rp_run, off_alarm_ticks, failed_reads, gate_wait>>

UpdateInverterSwitchMode(E) ==
    /\ pc = "ism"
    /\ \E o \in Reads(E, "inverter_switch_mode", E.ism) :
         /\ IF o.val # None
            THEN Inverter_Connected' = TRUE /\ Inverter_Switch_Mode' = o.val[1]
            ELSE Inverter_Connected' = FALSE /\ Inverter_Switch_Mode' = 0
         /\ dbus_items' =
              Popped(dbus_items,
                     IF o.exc THEN {"inverter_switch_mode"} ELSE {})
         /\ failed_reads' =
              failed_reads \cup Failed("inverter_switch_mode", o)
    /\ pc' = "gate"
    /\ UNCHANGED <<Mode, Toggle_State, inverter_switch_mode_update_time,
                   Off_Button_Pressed_Counter, BMS_Disable, Battery_SOC,
                   Battery_Charge_Limit, Battery_Discharge_Limit,
                   AC_Output_Current, Reverse_Power_Counter,
                   Reverse_Power_Alarm, BMS_Connected, relay_states,
                   inverter_delay, input_values, now, relay_bus, run_obs>>

\* line 339
TargetDiffers == Inverter_Switch_Mode_Target # Some(Inverter_Switch_Mode)

\* variant: the settle delay is not tested
GateCommitsWithoutSettle ==
    TargetDiffers /\ Battery_Contactors_Closed /\ MinIntervalElapsed

\* lines 339-342: the command is sent
GateCommits ==
    /\ TargetDiffers
    /\ Battery_Contactors_Closed
    /\ inverter_delay = 0
    /\ MinIntervalElapsed

\* variant: open contactors do not restart the settle delay
DelayAfterGateNoReset ==
    IF TargetDiffers /\ Battery_Contactors_Closed /\ inverter_delay # 0
    THEN Max(0, inverter_delay - 1)
    ELSE inverter_delay

\* variant: the settle delay is not counted down
DelayAfterGateNoCountdown ==
    IF ~TargetDiffers THEN inverter_delay
    ELSE IF ~Battery_Contactors_Closed THEN CONTACTOR_SETTLE_DELAY
    ELSE inverter_delay

\* inverter_delay after set_inverter_switch_mode: line 212 (reading
\* Battery_Contactors_Closed while the contactors are open) and lines 350-351
DelayAfterGate ==
    IF ~TargetDiffers THEN inverter_delay
    ELSE IF ~Battery_Contactors_Closed THEN CONTACTOR_SETTLE_DELAY
    ELSE IF inverter_delay # 0 THEN Max(0, inverter_delay - 1)
    ELSE inverter_delay

\* variant: the time of the command is not recorded
UpdateTimeKept == inverter_switch_mode_update_time

\* line 343
UpdateTimeAfterGate ==
    IF GateCommits THEN now ELSE inverter_switch_mode_update_time

\* the calls of set_inverter_switch_mode in a row, this one included, that
\* found the target different and the contactors closed and sent no command
GateWaitAfterGate ==
    IF TargetDiffers /\ Battery_Contactors_Closed /\ ~GateCommits
    THEN gate_wait + 1
    ELSE 0

\* set_inverter_switch_mode.  inv_cmd is the command of this call (None when
\* it sends none), inv_delivered whether the write reached the bus, cmd_gap
\* the clock time between the last two commands (counted up to
\* MIN_COMMAND_INTERVAL + 1).  The two readings of time() in lines 342 and
\* 343 are one reading of the clock.
SetInverterSwitchMode(E) ==
    /\ pc = "gate"
    /\ inverter_delay' = DelayAfterGate
    /\ inverter_switch_mode_update_time' = UpdateTimeAfterGate
    /\ gate_wait' = GateWaitAfterGate
    /\ IF GateCommits
       THEN /\ inv_cmd' = Inverter_Switch_Mode_Target
            /\ cmd_gap' =
                 IF last_cmd_time = None THEN None
                 ELSE Some(Min(now - last_cmd_time[1],
                               MIN_COMMAND_INTERVAL + 1))
            /\ last_cmd_time' = Some(now)
            /\ \E exc \in
                  {FALSE} \cup
                  {x \in {TRUE} : /\ dbus_items["inverter_switch_mode"] = "live"
                                  /\ "inverter_switch_mode" \in E.raises} :
                 /\ inv_delivered' =
                      (dbus_items["inverter_switch_mode"] = "live" /\ ~exc)
                 /\ dbus_items' =
                      Popped(dbus_items,
                             IF exc THEN {"inverter_switch_mode"} ELSE {})
       ELSE /\ inv_cmd' = None
            /\ inv_delivered' = FALSE
            /\ UNCHANGED <<cmd_gap, last_cmd_time, dbus_items>>
    /\ pc' = "end"
    /\ UNCHANGED <<Mode, Toggle_State, Off_Button_Pressed_Counter,
                   BMS_Disable, Battery_SOC, Battery_Charge_Limit,
                   Battery_Discharge_Limit, AC_Output_Current,
                   Inverter_Switch_Mode, Reverse_Power_Counter,
                   Reverse_Power_Alarm, Inverter_Connected, BMS_Connected,
                   relay_states, input_values, now, relay_bus,
                   relay_writes, rp_run, off_alarm_ticks, failed_reads,
                   out_targets, out_fault>>

\* lines 394-405: exit on the restart chord, else sleep to the next tick.
\* off_alarm_ticks counts the ticks in a row that ended in mode Off with the
\* alarm set (counted up to MaxReversePowerCounter).
EndOfTick(E) ==
    /\ pc = "end"
    /\ IF Service_Restart_Requested
       THEN pc' = "exited" /\ UNCHANGED now
       ELSE /\ pc' = "connect"
            /\ \E dt \in E.dts : now + dt <= E.maxTime /\ now' = now + dt
    /\ off_alarm_ticks' =
         IF Reverse_Power_Alarm /\ Mode = "Off"
         THEN Min(off_alarm_ticks + 1, MaxReversePowerCounter)
         ELSE 0
    /\ UNCHANGED <<ctl_vars, relay_bus, inv_cmd, inv_delivered, cmd_gap,
                   last_cmd_time, relay_writes, rp_run, failed_reads,
                   out_targets, out_fault, gate_wait>>

Next(E) ==
    \/ CheckAndCreateConnections(E)
    \/ UpdateInputs(E)
    \/ UpdateMode(E)
    \/ UpdateBatterySoc(E)
    \/ UpdateBatteryLimits(E)
    \/ UpdateAcOutputCurrent(E)
    \/ CheckReversePower
    \/ UpdateRelayStates(E)
    \/ SetOutputs(E)
    \/ UpdateInverterSwitchMode(E)
    \/ SetInverterSwitchMode(E)
    \/ EndOfTick(E)

\* ------------------------------------------------------------ environments

RelaysOff == [r \in Relays |-> 0]

\* The inverter gate: the operator selects On or ChargeOnly, the battery
\* limits come and go, the inverter reports On or Off.
GateEnv ==
    [buttons |-> {Button(0, 0, 0), Button(0, 1, 0)},
     soc |-> {Some(60)},
     charge |-> {Some(4), Some(1004)},
     discharge |-> {Some(0), Some(1004)},
     ac |-> {Some(0)},
     ism |-> {Some(INV_SWITCH_ON), Some(INV_SWITCH_OFF)},
     relay_init |-> {RelaysOff},
     down |-> {},
     raises |-> {},
     dts |-> {TIMESTEP},
     maxTime |-> MaxTime,
     maxOffHold |-> MaxOffHold]

InitGate == Init(GateEnv)
NextGate == Next(GateEnv)
Spec == InitGate /\ [][NextGate]_vars

\* The reverse-power detector: the operator selects Off, On or ChargeOnly,
\* the AC output current is -8.0 A, or -5.04 A (which round makes -5.0 A);
\* the battery reports zero limits, so the inverter gate stays shut.
AlarmEnv ==
    [buttons |-> {Button(0, 0, 0), Button(1, 0, 0), Button(0, 1, 0),
                  Button(0, 0, 1)},
     soc |-> {Some(60)},
     charge |-> {Some(0)},
     discharge |-> {Some(0)},
     ac |-> {Some(-800), Some(-504)},
     ism |-> {Some(INV_SWITCH_ON)},
     relay_init |-> {RelaysOff},
     down |-> {},
     raises |-> {},
     dts |-> {TIMESTEP},
     maxTime |-> MaxAlarmTime,
     maxOffHold |-> MaxShortOffHold]

InitAlarm == Init(AlarmEnv)
NextAlarm == Next(AlarmEnv)
SpecAlarm == InitAlarm /\ [][NextAlarm]_vars

\* The mode state machine: every combination of the three buttons, a state
\* of charge below and above 50 %; the battery reports zero limits, so the
\* inverter gate stays shut.
ModeEnv ==
    [buttons |-> AllButtons,
     soc |-> {Some(40), Some(60)},
     charge |-> {Some(0)},
     discharge |-> {Some(0)},
     ac |-> {Some(0)},
     ism |-> {Some(INV_SWITCH_OFF)},
     relay_init |-> {RelaysOff},
     down |-> {},
     raises |-> {},
     dts |-> {TIMESTEP},
     maxTime |-> MaxModeTime,
     maxOffHold |-> MaxOffHold]

InitMode == Init(ModeEnv)
NextModeEnv == Next(ModeEnv)
SpecMode == InitMode /\ [][NextModeEnv]_vars

\* Failing links: the handle of a telemetry item may be missing after a
\* connection attempt, a read may raise DBusException, and the state of
\* charge may be read as no value.
TelemetryItems ==
    {"battery_soc", "battery_charge_limit", "battery_discharge_limit",
     "ac_output_current", "inverter_switch_mode"}

LinkEnv ==
    [buttons |-> {Button(0, 0, 0), Button(0, 1, 0)},
     soc |-> {Some(60), None},
     charge |-> {Some(1004)},
     discharge |-> {Some(1004)},
     ac |-> {Some(0)},
     ism |-> {Some(INV_SWITCH_ON)},
     relay_init |-> {RelaysOff},
     down |-> TelemetryItems,
     raises |-> TelemetryItems,
     dts |-> {TIMESTEP},
     maxTime |-> MaxLinkTime,
     maxOffHold |-> MaxOffHold]

InitLink == Init(LinkEnv)
NextLink == Next(LinkEnv)
SpecLink == InitLink /\ [][NextLink]_vars

\* The relay outputs: every combination of the three buttons, relays that
\* are all off or all on when the controller starts, an inverter whose AC
\* output current cannot always be read, and an Off relay (relay 2) whose
\* handle may be missing and whose reads and writes may raise.
RelaysOn == [r \in Relays |-> 1]

RelayEnv ==
    [buttons |-> AllButtons,
     soc |-> {Some(60)},
     charge |-> {Some(0)},
     discharge |-> {Some(0)},
     ac |-> {Some(0)},
     ism |-> {Some(INV_SWITCH_OFF)},
     relay_init |-> {RelaysOff, RelaysOn},
     down |-> {"relay_2", "ac_output_current"},
     raises |-> {"relay_2"},
     dts |-> {TIMESTEP},
     maxTime |-> MaxRelayTime,
     maxOffHold |-> MaxShortOffHold]

InitRelay == Init(RelayEnv)
NextRelay == Next(RelayEnv)
SpecRelay == InitRelay /\ [][NextRelay]_vars

\* The waiting gate: the operator selects On, the contactors open and close,
\* the inverter goes on reporting Off.  run() calls the methods of a tick one
\* after the other in a loop without end and none of them waits for anything,
\* so a step that can be taken is taken (weak fairness of the next-state
\* relation).
LiveEnv ==
    [buttons |-> {Button(0, 0, 0), Button(0, 1, 0)},
     soc |-> {Some(60)},
     charge |-> {Some(4), Some(1004)},
     discharge |-> {Some(1004)},
     ac |-> {Some(0)},
     ism |-> {Some(INV_SWITCH_OFF)},
     relay_init |-> {RelaysOff},
     down |-> {},
     raises |-> {},
     dts |-> {TIMESTEP},
     maxTime |-> MaxLiveTime,
     maxOffHold |-> MaxOffHold]

InitLive == Init(LiveEnv)
NextLive == Next(LiveEnv)
SpecLive == InitLive /\ [][NextLive]_vars /\ WF_vars(NextLive)

\* ------------------------------------------------------------------ claims

ContactorsClosed == Battery_Charge_Limit # 0 /\ Battery_Discharge_Limit # 0
Differs == Inverter_Switch_Mode_Target # Some(Inverter_Switch_Mode)
Elapsed == now - inverter_switch_mode_update_time
\* set_inverter_switch_mode sends a command in this step
Commands == pc = "gate" /\ inv_cmd' # None

\* C1: set_inverter_switch_mode sends an inverter command on a tick only if,
\* on that tick, the target differs from the confirmed switch mode, both
\* battery limits are nonzero, the settle delay is 0 and the minimum interval
\* has elapsed since the last command.
C1_CommandOnlyThroughGate ==
    [][Commands =>
         /\ Differs
         /\ ContactorsClosed
         /\ inverter_delay = 0
         /\ Elapsed >= MIN_COMMAND_INTERVAL]_vars

C1_Witness == pc = "end" /\ inv_cmd # None /\ inv_delivered

C3_Stated ==
    Reverse_Power_Counter >= 0 /\ Reverse_Power_Counter <= 10

\* C4: reverse_power_alarm goes from false to true only in a step where the
\* counter reaches THRESHOLD, from true to false only in a step in mode Off
\* that leaves the counter at 0, and never from true to false in mode On or
\* ChargeOnly.
C4_AlarmEdges ==
    [][/\ (~Reverse_Power_Alarm /\ Reverse_Power_Alarm') =>
            /\ Reverse_Power_Counter < REVERSE_POWER_COUNTER_THRESHOLD
            /\ Reverse_Power_Counter' = REVERSE_POWER_COUNTER_THRESHOLD
       /\ (Reverse_Power_Alarm /\ ~Reverse_Power_Alarm') =>
            /\ Mode' = "Off"
            /\ Reverse_Power_Counter' = 0
       /\ (Reverse_Power_Alarm /\ Mode' \in {"On", "ChargeOnly"}) =>
            Reverse_Power_Alarm']_vars

\* the alarm is still set in mode ChargeOnly after the counter has decayed to 0
C4_Witness ==
    /\ pc = "relays"
    /\ Mode = "ChargeOnly"
    /\ Reverse_Power_Alarm
    /\ Reverse_Power_Counter = 0

\* C5, as stated: once the alarm is latched, continuous Off ticks let the
\* counter decay by 1 per tick to 0 and clear the alarm; the counter is at
\* most MaxReversePowerCounter, so the alarm does not outlast that many Off
\* ticks in a row.
C5_Stated ==
    (Reverse_Power_Alarm /\ Mode = "Off") =>
        off_alarm_ticks < MaxReversePowerCounter

\* C6, as stated: update_mode sets the mode of the one button asserted alone,
\* and with no button or several buttons asserted leaves the mode as it was.
C6_Stated ==
    [][pc = "mode" =>
         /\ OffAlone(input_values) => Mode' = "Off"
         /\ OnAlone(input_values) => Mode' = "On"
         /\ ChargeAlone(input_values) => Mode' = "ChargeOnly"
         /\ ~(\/ OffAlone(input_values)
              \/ OnAlone(input_values)
              \/ ChargeAlone(input_values)) => Mode' = Mode]_vars

\* C6, amended: update_mode sets the mode of the one button asserted alone;
\* with no button or several buttons asserted it leaves the mode as it was,
\* except that the uninitialized mode of the first tick becomes Off; no other
\* step changes the mode.
C6_ModeChangesOnSingleButton ==
    [][/\ pc = "mode" =>
            /\ OffAlone(input_values) => Mode' = "Off"
            /\ OnAlone(input_values) => Mode' = "On"
            /\ ChargeAlone(input_values) => Mode' = "ChargeOnly"
            /\ ~(\/ OffAlone(input_values)
                 \/ OnAlone(input_values)
                 \/ ChargeAlone(input_values)) =>
                 Mode' = IF Mode = "" THEN "Off" ELSE Mode
       /\ pc # "mode" => Mode' = Mode]_vars

\* update_mode has left mode On alone under the Off+On chord
C6_Witness ==
    /\ pc = "soc"
    /\ Mode = "On"
    /\ input_values = Button(1, 1, 0)

C9_RateLimit == cmd_gap # None => cmd_gap[1] >= MIN_COMMAND_INTERVAL

\* a second command has been sent
C9_Witness == pc = "end" /\ inv_cmd # None /\ cmd_gap # None

\* C10: while the target differs from the confirmed switch mode, a tick that
\* finds the contactors open leaves the settle delay at 10 and sends no
\* command, a tick that finds them closed with the delay above 0 takes 1 off
\* the delay (not below 0) and sends no command, and a command is sent only
\* with the delay at 0.
C10_SettleCountdown ==
    [][(pc = "gate" /\ Differs) =>
         /\ ~ContactorsClosed =>
              inverter_delay' = 10 /\ inv_cmd' = None
         /\ (ContactorsClosed /\ inverter_delay > 0) =>
              /\ inverter_delay' = Max(0, inverter_delay - 1)
              /\ inv_cmd' = None
         /\ inv_cmd' # None => inverter_delay = 0]_vars

\* the countdown from 10 has just reached 0: nothing but the delay held the
\* command back on this tick
C10_Witness ==
    /\ pc = "end"
    /\ inv_cmd = None
    /\ Differs
    /\ ContactorsClosed
    /\ inverter_delay = 0
    /\ Elapsed > MIN_COMMAND_INTERVAL

BatteryItems ==
    {"battery_soc", "battery_charge_limit", "battery_discharge_limit"}

\* C11, as stated: a read of the state of charge, a battery limit, the AC
\* output current or the inverter switch mode that returns no value on a tick
\* never halts the loop (the tick runs to its end with the connected flag
\* false and the value at its default).  It does not hold: a battery limit
\* read as None ends the process in round(None, 1), and an AC output current
\* read that raises ends it in the second pop of the handle.
C11_Stated == failed_reads # {} => pc # "crashed"

\* C12, as stated: when a read of the state of charge or of a battery limit
\* has returned no value on a tick, set_outputs of that tick finds
\* BMS_Connected false and Fault_Detected true.  It does not hold:
\* update_battery_limits sets BMS_Connected after update_battery_soc cleared
\* it.
C12_Stated ==
    (pc = "outputs" /\ failed_reads \cap BatteryItems # {}) =>
        (~BMS_Connected /\ Fault_Detected)

\* C13: for each relay 2..9, set_outputs calls set_dbus_value for the relay
\* if and only if the target (0 or 1) differs from the state read for the
\* relay on this tick (None when the read failed); a relay it does not call
\* set_dbus_value for keeps its state on the bus.
C13_WriteIffChanged ==
    [][pc = "outputs" =>
         \A r \in Relays :
            /\ (r \in relay_writes') <=> (out_targets'[r] # relay_states[r])
            /\ (r \notin relay_writes') => (relay_bus'[r] = relay_bus[r])]_vars

\* one relay written and another left alone on the same tick
C13_Witness ==
    /\ pc = "ism"
    /\ 3 \in relay_writes
    /\ relay_bus[3] = 1
    /\ 4 \notin relay_writes
    /\ relay_states[4] = out_targets[4]

\* C14: from update_mode of the first tick on, the mode is Off, On or
\* ChargeOnly, and exactly one of Off_LED, On_LED and Charge_LED is true.
C14_ModeValid ==
    (now > STARTUP_WAIT \/ pc \notin {"connect", "inputs", "mode"}) =>
        /\ Mode \in {"Off", "On", "ChargeOnly"}
        /\ B2I(Off_LED) + B2I(On_LED) + B2I(Charge_LED) = 1

\* the first tick took the default: no single button was pressed
C14_Witness ==
    /\ now = STARTUP_WAIT
    /\ pc = "soc"
    /\ Mode = "Off"
    /\ ~OffAlone(input_values)

\* C15: when set_outputs finds a fault, the target of relay 2 is the toggle
\* bit and the toggle bit flips, so that the target is the opposite of the
\* one of the tick before when that tick found a fault too; when it finds no
\* fault, the target of relay 2 is (mode = Off).
C15_OffRelayBlink ==
    [][pc = "outputs" =>
         /\ Fault_Detected =>
              /\ out_targets'[2] = Some(B2I(Toggle_State))
              /\ Toggle_State' = ~Toggle_State
         /\ (Fault_Detected /\ out_fault) =>
              out_targets'[2] = Some(1 - out_targets[2][1])
         /\ ~Fault_Detected =>
              /\ out_targets'[2] = Some(B2I(Mode = "Off"))
              /\ Toggle_State' = Toggle_State]_vars

\* a fault tick in mode On with target 1 for relay 2, and no handle to write
\* it with
C15_Witness ==
    /\ pc = "ism"
    /\ out_fault
    /\ Mode = "On"
    /\ out_targets[2] = Some(1)
    /\ ~Toggle_State
    /\ dbus_items["relay_2"] # "live"

\* Off with On and not Charge, or Off with Charge and not On
RcdChord(in) ==
    \/ in.Off_Button = 1 /\ in.On_Button = 1 /\ in.Charge_Button = 0
    \/ in.Off_Button = 1 /\ in.Charge_Button = 1 /\ in.On_Button = 0

\* C16, as stated: the target of relay 8 is 1 exactly when Off and On are
\* pressed without Charge or Off and Charge without On, and update_mode
\* leaves the mode unchanged on a tick with one of these chords.  It does not
\* hold on the first tick, where the mode goes from "" to Off.
C16_Stated ==
    /\ [][pc = "outputs" =>
            out_targets'[8] = Some(B2I(RcdChord(input_values)))]_vars
    /\ [][(pc = "mode" /\ RcdChord(input_values)) => Mode' = Mode]_vars

\* C16: the target of relay 8 is 1 exactly when Off and On are pressed
\* without Charge or Off and Charge without On; on a tick with one of these
\* chords update_mode leaves Off, On or ChargeOnly unchanged and makes Off of
\* the mode "" of the first tick.
C16_RcdReset ==
    /\ [][pc = "outputs" =>
            out_targets'[8] = Some(B2I(RcdChord(input_values)))]_vars
    /\ [][(pc = "mode" /\ RcdChord(input_values)) =>
            Mode' = IF Mode = "" THEN "Off" ELSE Mode]_vars

\* the chord pressed in mode On: relay 8 on, the mode still On
C16_Witness ==
    /\ pc = "ism"
    /\ RcdChord(input_values)
    /\ out_targets[8] = Some(1)
    /\ relay_bus[8] = 1
    /\ Mode = "On"

\* C17, as stated: the loop stops only at the end of a tick that saw the
\* three buttons pressed together; with any other buttons the next tick
\* starts.  It does not hold: a failed read of a battery limit ends the loop
\* in the middle of a tick, whatever the buttons.
C17_Stated ==
    pc \in {"exited", "crashed"} =>
        input_values = Button(1, 1, 1)

\* C18, as stated: a tick that finds the contactors open ends with the
\* settle delay at 10, whether or not the target differs from the confirmed
\* switch mode.  It does not hold: the delay is set only where
\* Battery_Contactors_Closed is read, and that is after the target was found
\* to differ.
C18_Stated ==
    (pc = "end" /\ ~ContactorsClosed) =>
        inverter_delay = CONTACTOR_SETTLE_DELAY

\* C19: after set_outputs, the bus holds for each relay 3..9 the value of its
\* predicate on this tick (relays 3..9 are read and written without failure).
C19_Transparent ==
    pc = "ism" =>
        /\ relay_bus[3] = B2I(Mode = "On")
        /\ relay_bus[4] = B2I(Mode = "ChargeOnly")
        /\ relay_bus[5] = B2I(BMS_Wake)
        /\ relay_bus[6] = B2I(DSE_Remote_Start)
        /\ relay_bus[7] = B2I(DSE_Mode_Request)
        /\ relay_bus[8] = B2I(RcdChord(input_values))
        /\ relay_bus[9] = B2I(Reverse_Power_Alarm)

\* a tick in mode On, not the first, that wrote none of the relays 3..9
C19_Witness ==
    /\ pc = "ism"
    /\ now > STARTUP_WAIT
    /\ Mode = "On"
    /\ relay_writes \cap (3..9) = {}
    /\ relay_bus[3] = 1
    /\ relay_bus[6] = 1

\* set_inverter_switch_mode is about to find the target different and the
\* contactors closed
GateAsked == pc = "gate" /\ TargetDiffers /\ Battery_Contactors_Closed

\* C20: a call of set_inverter_switch_mode that finds the target different
\* from the confirmed switch mode and the contactors closed (with 10 ticks
\* left on the clock of the model) is followed by a command, unless a later
\* call finds the target equal or the contactors open; of such calls in a
\* row at most 10 send no command (the settle countdown; the minimum
\* interval runs out within it), so the next one sends the command; a
\* command carries the target of the tick it is sent on.
C20_GateOpensInTime ==
    /\ [](gate_wait <= CONTACTOR_SETTLE_DELAY)
    /\ [][(pc = "gate" /\ inv_cmd' # None) =>
            inv_cmd' = Inverter_Switch_Mode_Target]_vars
    /\ (GateAsked /\ now + CONTACTOR_SETTLE_DELAY * TIMESTEP <= MaxLiveTime) ~>
         \/ pc = "end" /\ inv_cmd # None
         \/ pc = "gate" /\ ~GateAsked

\* 10 calls in a row were held back, and the call to come sends the command
C20_Witness ==
    /\ pc = "gate"
    /\ gate_wait = CONTACTOR_SETTLE_DELAY
    /\ GateCommits

\* C21, as stated: the time of the last inverter command changes only in a
\* call of set_inverter_switch_mode whose write reaches the bus; a call whose
\* write reaches no handle leaves it unchanged.  It does not hold: line 343
\* records the time before set_dbus_value is called, and set_dbus_value does
\* nothing without a handle.
C21_Stated ==
    [][inverter_switch_mode_update_time' # inverter_switch_mode_update_time =>
         (pc = "gate" /\ inv_delivered')]_vars

====
